---- MODULE Spec2Model ----
(***************************************************************************)
(* Model of streamlit_app.py, the company map viewer.                      *)
(*                                                                         *)
(* The script is re-run from top to bottom once per user interaction (one  *)
(* render pass).  The session state (project_sites, competitor_visibility, *)
(* all_competitors, last_radius) and the values of the persistent widgets  *)
(* (uploaded file, map mode, radius) survive from one pass to the next.    *)
(* Every action below is one whole render pass triggered by one            *)
(* interaction.                                                            *)
(*                                                                         *)
(* Units: coordinates are in tenths of a degree, distances and radii in    *)
(* whole miles.  A distance d computed by the script is represented by     *)
(* the least whole number of miles >= d, so that for a whole-mile radius r *)
(* the script's test d <= r is exactly  Ceil(d) <= r.                      *)
(*                                                                         *)
(* Widgets: only widgets drawn by the previous pass are on screen and can  *)
(* be clicked, and a click belongs to the widget as that pass drew it.  A  *)
(* widget is identified by its call: label, key and value= argument.  A    *)
(* checkbox call that repeats a call of the previous pass returns that     *)
(* widget's state (flipped if it was clicked); any other checkbox call     *)
(* makes a new widget and returns its value= argument.  A button call      *)
(* returns True only when the click was on a button of the same label (or  *)
(* key); a click on a button whose label this pass no longer builds is     *)
(* lost.                                                                   *)
(***************************************************************************)
EXTENDS Integers, Sequences, FiniteSets, TLC

VARIABLES uploaded_file, mode, radius_miles,
          project_sites, competitor_visibility, all_competitors, last_radius,
          pass, seen, removed, passes

vars == <<uploaded_file, mode, radius_miles,
          project_sites, competitor_visibility, all_competitors, last_radius,
          pass, seen, removed, passes>>

-----------------------------------------------------------------------------
(* Bounds and inputs of the model *)

\* Most interactions (render passes) in one session.
MaxPasses == 4

AllMode == "All Companies with Radius"
RadiusMode == "Companies Within Radius of Project"
Modes == {AllMode, RadiusMode}

\* Radii the user enters (whole miles, within the widget's 1..500 range);
\* 10 is the slider's default.
DefaultRadius == 10
RadiusChoices == {1, DefaultRadius}

\* Manual Add Project inputs: the name typed, with its latitude and
\* longitude.  A hand-made "P" lies one degree north of the sheet's P.
AddNames == {"P", "X"}
AddLat(name) == IF name = "P" THEN 10 ELSE 0
AddLon(name) == IF name = "X" THEN 1 ELSE 0

required_cols == {"Company Location", "Latitude", "Longitude", "Company Name"}
required_project_cols == {"Project Name", "Latitude", "Longitude"}

CRow(loc, name, lat, lon, numeric) ==
    [loc |-> loc, name |-> name, lat |-> lat, lon |-> lon, numeric |-> numeric]
PRow(name, lat, lon) == [name |-> name, lat |-> lat, lon |-> lon]

\* The spreadsheets the user may upload.  numeric = FALSE marks a row whose
\* Latitude cell holds text instead of a number.
NoFile == "none"
Files == {"F1", "NoCompanyCol", "NoProjectCol", "BadCell"}
Workbook(f) ==
    CASE f = "F1" ->
           [companies_columns |-> required_cols,
            projects_columns  |-> required_project_cols,
            companies |-> << CRow("A", "G1", 0, 0, TRUE),
                             CRow("B", "G1", 0, 1, TRUE),
                             CRow("C", "G2", 10, 0, TRUE) >>,
            projects  |-> << PRow("P", 0, 0) >>]
      [] f = "NoCompanyCol" ->
           [companies_columns |-> required_cols \ {"Company Name"},
            projects_columns  |-> required_project_cols,
            companies |-> << CRow("A", "G1", 0, 0, TRUE) >>,
            projects  |-> << PRow("P", 0, 0) >>]
      [] f = "NoProjectCol" ->
           [companies_columns |-> required_cols,
            projects_columns  |-> required_project_cols \ {"Longitude"},
            companies |-> << CRow("A", "G1", 0, 0, TRUE) >>,
            projects  |-> << PRow("P", 0, 0) >>]
      [] f = "BadCell" ->
           [companies_columns |-> required_cols,
            projects_columns  |-> required_project_cols,
            companies |-> << CRow("A", "G1", 0, 0, TRUE),
                             CRow("B", "G1", 0, 1, FALSE) >>,
            projects  |-> << PRow("P", 0, 0), PRow("Q", 10, 0) >>]

-----------------------------------------------------------------------------
(* Distance function *)

\* haversine() at the model's coordinates, rounded up to whole miles:
\* 0.1 degree of longitude on the equator is 6.909 mi, 1 degree of latitude is
\* 69.094 mi, and the diagonal between the two is 69.439 mi.
haversine(lat1, lon1, lat2, lon2) ==
    LET dlat == IF lat2 >= lat1 THEN lat2 - lat1 ELSE lat1 - lat2
        dlon == IF lon2 >= lon1 THEN lon2 - lon1 ELSE lon1 - lon2
    IN  CASE dlat = 0  /\ dlon = 0 -> 0
          [] dlat = 0  /\ dlon = 1 -> 7
          [] dlat = 10 /\ dlon = 0 -> 70
          [] dlat = 10 /\ dlon = 1 -> 70

-----------------------------------------------------------------------------
(* Session state as one record, and the steps of a render pass *)

Session == [project_sites         |-> project_sites,
            competitor_visibility |-> competitor_visibility,
            all_competitors       |-> all_competitors,
            last_radius           |-> last_radius]

\* st.session_state.setdefault(...) on a fresh session.
InitialSession == [project_sites         |-> <<>>,
                   competitor_visibility |-> <<>>,
                   all_competitors       |-> {},
                   last_radius           |-> -1]

Site(name, lat, lon, visible) ==
    [name |-> name, lat |-> lat, lon |-> lon, visible |-> visible]

\* project_sites[name] = value on an insertion-ordered dict: an existing key
\* keeps its position, a new key goes last.
SetItem(ps, site) ==
    IF \E i \in 1..Len(ps) : ps[i].name = site.name
    THEN [i \in 1..Len(ps) |-> IF ps[i].name = site.name THEN site ELSE ps[i]]
    ELSE Append(ps, site)

\* competitor_visibility.get(c, True)
Get(cv, c) == IF c \in DOMAIN cv THEN cv[c] ELSE TRUE

\* competitor_visibility[c] = v
Put(cv, c, v) == [k \in DOMAIN cv \cup {c} |-> IF k = c THEN v ELSE cv[k]]

\* A drawn checkbox: the value= argument of its call and the state it shows.
Box(value, state) == [value |-> value, state |-> state]

\* st.checkbox(label, value=value, key=key), where boxes are the checkboxes
\* of the previous pass: the same call (key and value=) is the same widget and
\* returns its state, flipped if the interaction clicked it; a call with
\* another value= is a new widget and returns value.
checkbox(value, key, boxes, clicked) ==
    IF key \in DOMAIN boxes /\ boxes[key].value = value
    THEN (IF clicked THEN ~boxes[key].state ELSE boxes[key].state)
    ELSE value

\* What a pass leaves on screen: the project checkboxes (each with its delete
\* button), whether the toggle column was drawn, the direction the global
\* button's label was built from, that of each group button, and the company
\* checkboxes.
NoWidgets == [proj |-> <<>>, toggles |-> FALSE, global |-> FALSE,
              group |-> <<>>, comp |-> <<>>]

\* The interaction that triggered a pass.
Ev(kind, name) == [kind |-> kind, name |-> name]

\* if st.sidebar.button("Add Project"): ...
AddProject(s, ev) ==
    IF ev.kind = "add"
    THEN [s EXCEPT !.project_sites =
              SetItem(@, Site(ev.name, AddLat(ev.name), AddLon(ev.name), TRUE))]
    ELSE s

\* if not all(col in companies_df.columns for col in required_cols)
CompaniesValid(wb) == required_cols \subseteq wb.companies_columns

\* Mutant: the Projects sheet is checked for its name column only.
ProjectsValidNameOnly(wb) == "Project Name" \in wb.projects_columns

\* elif not all(col in projects_df.columns for col in [...])
ProjectsValid(wb) == required_project_cols \subseteq wb.projects_columns

RECURSIVE SeedRows(_, _)
SeedRows(ps, rows) ==
    IF rows = <<>> THEN ps
    ELSE SeedRows(SetItem(ps, Site(Head(rows).name, Head(rows).lat,
                                   Head(rows).lon, TRUE)),
                  Tail(rows))

\* if not st.session_state.project_sites: seed from the Projects sheet
SeedProjects(s, wb) ==
    IF s.project_sites = <<>>
    THEN [s EXCEPT !.project_sites = SeedRows(<<>>, wb.projects)]
    ELSE s

SiteNames(s) == {s.project_sites[i].name : i \in 1..Len(s.project_sites)}

\* visible = col1.checkbox(name, value=data["visible"], key=f"proj_{name}")
\* for every site: the boxes this pass draws, w0 being the previous widgets.
ProjectBoxes(s, ev, w0) ==
    LET ps == s.project_sites
    IN  [n \in SiteNames(s) |->
            LET data == ps[CHOOSE i \in 1..Len(ps) : ps[i].name = n]
            IN  Box(data.visible,
                    checkbox(data.visible, n, w0.proj,
                             ev.kind = "proj_toggle" /\ ev.name = n))]

\* Mutant: the project checkboxes share one widget, so a click on one flips
\* every site.
ManageProjectSitesSharedBox(s, ev, w0) ==
    LET ps == s.project_sites
        checked == [i \in 1..Len(ps) |->
                      [ps[i] EXCEPT !.visible =
                          checkbox(@, ps[i].name, w0.proj, ev.kind = "proj_toggle")]]
        to_delete == {ps[i].name : i \in {j \in 1..Len(ps) :
                          /\ ev.kind = "proj_remove" /\ ev.name = ps[j].name
                          /\ ev.name \in DOMAIN w0.proj}}
    IN  [s EXCEPT !.project_sites =
              SelectSeq(checked, LAMBDA p : p.name \notin to_delete)]

\* Manage Project Sites: checkbox write-back per site, then the deletions.
\* The delete button (key remove_<name>) answers a click on the button the
\* previous pass drew under the same key.
ManageProjectSites(s, ev, w0) ==
    LET ps == s.project_sites
        boxes == ProjectBoxes(s, ev, w0)
        checked == [i \in 1..Len(ps) |->
                      [ps[i] EXCEPT !.visible = boxes[ps[i].name].state]]
        to_delete == {ps[i].name : i \in {j \in 1..Len(ps) :
                          /\ ev.kind = "proj_remove" /\ ev.name = ps[j].name
                          /\ ev.name \in DOMAIN w0.proj}}
    IN  [s EXCEPT !.project_sites =
              SelectSeq(checked, LAMBDA p : p.name \notin to_delete)]

RECURSIVE RegisterRows(_, _)
RegisterRows(s, rows) ==
    IF rows = <<>> THEN s
    ELSE LET cname == Head(rows).loc
         IN  RegisterRows(
                [s EXCEPT !.all_competitors = @ \cup {cname},
                          !.competitor_visibility =
                              IF cname \notin DOMAIN @ THEN Put(@, cname, TRUE) ELSE @],
                Tail(rows))

\* Mutant: registration without the "not in" guard resets every listed
\* location to visible.
RegisterCompaniesReset(s, wb) ==
    LET locs == {wb.companies[i].loc : i \in 1..Len(wb.companies)}
    IN  [s EXCEPT !.all_competitors = @ \cup locs,
                  !.competitor_visibility =
                      [k \in DOMAIN @ \cup locs |-> IF k \in locs THEN TRUE ELSE @[k]]]

\* for _, row in companies_df.iterrows(): register the location
RegisterCompanies(s, wb) == RegisterRows(s, wb.companies)

\* Mutant: every project site counts as a candidate reference, visible or not.
AllProjects(s) == s.project_sites

\* visible_projects = [p for p, v in project_sites.items() if v["visible"]]
visible_projects(s) == SelectSeq(s.project_sites, LAMBDA p : p.visible)

\* The reference project of a pass, or none.
HasReference(s, m) == m = RadiusMode /\ visible_projects(s) # <<>>
selected_project(s, m) ==
    IF HasReference(s, m) THEN Head(visible_projects(s)).name ELSE "None"

\* companies_df.apply(haversine ...) raises TypeError on a row whose
\* Latitude is not a number.
DistanceRaises(s, wb, m) ==
    HasReference(s, m) /\ \E i \in 1..Len(wb.companies) : ~wb.companies[i].numeric

RECURSIVE RecomputeRows(_, _, _, _)
RecomputeRows(cv, rows, ref, r) ==
    IF rows = <<>> THEN cv
    ELSE RecomputeRows(
            Put(cv, Head(rows).loc,
                haversine(ref.lat, ref.lon, Head(rows).lat, Head(rows).lon) <= r),
            Tail(rows), ref, r)

\* The body of  if radius_miles != st.session_state.last_radius:
Recompute(s, wb, ref, r) ==
    LET ps == s.project_sites
    IN  [s EXCEPT !.competitor_visibility = RecomputeRows(@, wb.companies, ref, r),
                  !.project_sites =
                      [i \in 1..Len(ps) |->
                          [ps[i] EXCEPT !.visible =
                              haversine(ref.lat, ref.lon, ps[i].lat, ps[i].lon) <= r]],
                  !.last_radius = r]

\* Mutant: no idempotence guard, every pass with a reference recomputes.
RadiusAlwaysChanged(s, r) == TRUE

\* if radius_miles != st.session_state.last_radius
RadiusChanged(s, r) == r # s.last_radius

\* if mode == "Companies Within Radius of Project" and visible_projects: ...
RadiusBlock(s, wb, m, r) ==
    IF HasReference(s, m) /\ RadiusChanged(s, r)
    THEN Recompute(s, wb, Head(visible_projects(s)), r)
    ELSE s

\* visible_df: the rows of companies_df whose location is flagged visible,
\* as a set of location labels.
visible_df(s, wb) ==
    {wb.companies[i].loc : i \in {j \in 1..Len(wb.companies) :
        /\ wb.companies[j].loc \in DOMAIN s.competitor_visibility
        /\ s.competitor_visibility[wb.companies[j].loc]}}

\* m = folium.Map(location=[visible_df['Latitude'].mean(), ...]) raises when
\* a row of visible_df holds text for its Latitude (the mean is a TypeError)
\* and when visible_df is empty (the mean is NaN, which folium.Map rejects).
MapRaises(s, wb) ==
    \/ visible_df(s, wb) = {}
    \/ \E i \in 1..Len(wb.companies) :
          ~wb.companies[i].numeric /\ wb.companies[i].loc \in visible_df(s, wb)

-----------------------------------------------------------------------------
(* Company Location Toggles (right-hand column) *)

\* global_all_on = all(competitor_visibility.get(c, True) for c in all_competitors)
global_all_on(s) ==
    \A c \in s.all_competitors : Get(s.competitor_visibility, c)

\* if st.button("Deselect All" if global_all_on else "Select All"): ...
\* The button has no key: it answers the click only when the label it builds
\* now is the label of the button that was clicked.
GlobalButton(s, ev, w0) ==
    IF ev.kind = "global" /\ w0.toggles /\ w0.global = global_all_on(s)
    THEN [s EXCEPT !.competitor_visibility =
              [k \in DOMAIN @ \cup s.all_competitors |->
                  IF k \in s.all_competitors THEN ~global_all_on(s) ELSE @[k]]]
    ELSE s

\* companies_df.groupby("Company Name"): group keys in sorted order, and the
\* rows of one group in sheet order.
GroupNames == <<"G1", "G2">>
grouped(wb) ==
    SelectSeq(GroupNames,
              LAMBDA g : \E i \in 1..Len(wb.companies) : wb.companies[i].name = g)
GroupRows(wb, company) == SelectSeq(wb.companies, LAMBDA row : row.name = company)

\* all_checked = all(competitor_visibility.get(loc, True) for row in group)
all_checked(cv, group) == \A i \in 1..Len(group) : Get(cv, group[i].loc)

RECURSIVE SetRows(_, _, _)
SetRows(cv, rows, v) ==
    IF rows = <<>> THEN cv ELSE SetRows(Put(cv, Head(rows).loc, v), Tail(rows), v)

\* if st.button(f"{label} ({company})"): set every row of the group.  The
\* button has no key: it answers the click only when the label it builds now
\* (from all_checked) is the label of the button that was clicked.
GroupButton(cv, group, company, ev, w0) ==
    IF /\ ev.kind = "group" /\ ev.name = company
       /\ company \in DOMAIN w0.group
       /\ w0.group[company] = all_checked(cv, group)
    THEN SetRows(cv, group, ~all_checked(cv, group))
    ELSE cv

\* The toggle column as the loop runs through it: the flags, the company
\* checkboxes drawn so far and the direction of each group label drawn.
Column(cv, comp, group) == [cv |-> cv, comp |-> comp, group |-> group]

\* for _, row in group.iterrows(): checkbox write-back
RECURSIVE CheckboxRows(_, _, _, _)
CheckboxRows(t, rows, ev, w0) ==
    IF rows = <<>> THEN t
    ELSE LET cname == Head(rows).loc
             val == Get(t.cv, cname)
             updated == checkbox(val, cname, w0.comp,
                                 ev.kind = "toggle" /\ ev.name = cname)
         IN  CheckboxRows(Column(Put(t.cv, cname, updated),
                                 Put(t.comp, cname, Box(val, updated)),
                                 t.group),
                          Tail(rows), ev, w0)

RECURSIVE GroupLoop(_, _, _, _, _)
GroupLoop(t, companies, wb, ev, w0) ==
    IF companies = <<>> THEN t
    ELSE LET company == Head(companies)
             group == GroupRows(wb, company)
             pressed == Column(GroupButton(t.cv, group, company, ev, w0),
                               t.comp,
                               Put(t.group, company, all_checked(t.cv, group)))
         IN  GroupLoop(CheckboxRows(pressed, group, ev, w0),
                       Tail(companies), wb, ev, w0)

\* The whole toggle column: global button, then every group expander.
ToggleColumn(s, wb, ev, w0) ==
    GroupLoop(Column(GlobalButton(s, ev, w0).competitor_visibility, <<>>, <<>>),
              grouped(wb), wb, ev, w0)

CompanyToggles(s, wb, ev, w0) ==
    [GlobalButton(s, ev, w0) EXCEPT
        !.competitor_visibility = ToggleColumn(s, wb, ev, w0).cv]

\* The widgets a pass that reached the toggle column leaves on screen.
Widgets(boxes, s, wb, ev, w0) ==
    [proj |-> boxes, toggles |-> TRUE, global |-> global_all_on(s),
     group |-> ToggleColumn(s, wb, ev, w0).group,
     comp |-> ToggleColumn(s, wb, ev, w0).comp]

-----------------------------------------------------------------------------
(* One render pass *)

Locations(wb) == {wb.companies[i].loc : i \in 1..Len(wb.companies)}

\* What a pass did: the interaction, how it ended, the session state at the
\* points the script passes through, and what it drew.
\*   pre        at the start of the script
\*   atLoad     at  if uploaded_file:  (after the Add Project button)
\*   atRegister before the company registration loop
\*   atRadius   before the radius block (selected_project = None)
\*   afterRadius after the radius block, where visible_df is taken
\*   final      at the end of the script
\*   screen     the widgets on screen when the interaction happened
\*   widgets    the widgets the pass drew
PassRecord(ev, screen, outcome, s0, s1, s3, s4, s5, s6, selected, widgets, cmarkers, pmarkers) ==
    [ran |-> TRUE, ev |-> ev, screen |-> screen, outcome |-> outcome,
     pre |-> s0, atLoad |-> s1, atRegister |-> s3,
     atRadius |-> s4, afterRadius |-> s5, final |-> s6,
     selected_project |-> selected, widgets |-> widgets,
     company_markers |-> cmarkers, project_markers |-> pmarkers]

NoPass ==
    [ran |-> FALSE, ev |-> Ev("none", ""), screen |-> NoWidgets,
     outcome |-> "none",
     pre |-> InitialSession, atLoad |-> InitialSession,
     atRegister |-> InitialSession, atRadius |-> InitialSession,
     afterRadius |-> InitialSession, final |-> InitialSession,
     selected_project |-> "None", widgets |-> NoWidgets,
     company_markers |-> {}, project_markers |-> {}]

\* The script from top to bottom on session state s0, with the widgets w0 of
\* the previous pass on screen, the persistent inputs holding file f, mode m
\* and radius r, triggered by interaction ev.
\* Outcomes: "exception" is the except handler entered from the distance
\* column, before the toggle column; "map_exception" the except handler
\* entered from the map, after the toggle column was drawn and applied.
RenderPass(s0, w0, f, m, r, ev) ==
    LET s1 == AddProject(s0, ev)
    IN  IF f = NoFile
        THEN PassRecord(ev, w0, "no_file", s0, s1, s1, s1, s1, s1, "None",
                        NoWidgets, {}, {})
        ELSE
        LET wb == Workbook(f)
        IN  IF ~CompaniesValid(wb)
            THEN PassRecord(ev, w0, "companies_error", s0, s1, s1, s1, s1, s1,
                            "None", NoWidgets, {}, {})
            ELSE IF ~ProjectsValid(wb)
            THEN PassRecord(ev, w0, "projects_error", s0, s1, s1, s1, s1, s1,
                            "None", NoWidgets, {}, {})
            ELSE
            LET s2 == SeedProjects(s1, wb)
                boxes == ProjectBoxes(s2, ev, w0)
                s3 == ManageProjectSites(s2, ev, w0)
                s4 == RegisterCompanies(s3, wb)
            IN  IF DistanceRaises(s4, wb, m)
                THEN PassRecord(ev, w0, "exception", s0, s1, s3, s4, s4, s4,
                                selected_project(s4, m),
                                [NoWidgets EXCEPT !.proj = boxes], {}, {})
                ELSE
                LET s5 == RadiusBlock(s4, wb, m, r)
                    s6 == CompanyToggles(s5, wb, ev, w0)
                    drawn == Widgets(boxes, s5, wb, ev, w0)
                IN  IF MapRaises(s5, wb)
                    THEN PassRecord(ev, w0, "map_exception", s0, s1, s3, s4, s5, s6,
                                    selected_project(s4, m), drawn, {}, {})
                    ELSE
                    PassRecord(ev, w0, "rendered", s0, s1, s3, s4, s5, s6,
                               selected_project(s4, m), drawn,
                               visible_df(s5, wb),
                               {s6.project_sites[i].name :
                                   i \in {j \in 1..Len(s6.project_sites) :
                                             s6.project_sites[j].visible}})

\* The pass as a step of the session.  seen collects the company locations of
\* every sheet that passed validation; removed the projects deleted with
\* their delete button and not added again by hand since.
Pass(f, m, r, ev) ==
    LET res == RenderPass(Session, pass.widgets, f, m, r, ev)
        loaded == /\ f # NoFile
                  /\ required_cols \subseteq Workbook(f).companies_columns
                  /\ required_project_cols \subseteq Workbook(f).projects_columns
    IN  /\ passes < MaxPasses
        /\ passes' = passes + 1
        /\ uploaded_file' = f
        /\ mode' = m
        /\ radius_miles' = r
        /\ project_sites' = res.final.project_sites
        /\ competitor_visibility' = res.final.competitor_visibility
        /\ all_competitors' = res.final.all_competitors
        /\ last_radius' = res.final.last_radius
        /\ pass' = res
        /\ seen' = IF loaded THEN seen \cup Locations(Workbook(f)) ELSE seen
        /\ removed' = CASE ev.kind = "add" -> removed \ {ev.name}
                        [] ev.kind = "proj_remove" /\ loaded -> removed \cup {ev.name}
                        [] OTHER -> removed

Init ==
    /\ uploaded_file = NoFile
    /\ mode = AllMode
    /\ radius_miles = DefaultRadius
    /\ project_sites = InitialSession.project_sites
    /\ competitor_visibility = InitialSession.competitor_visibility
    /\ all_competitors = InitialSession.all_competitors
    /\ last_radius = InitialSession.last_radius
    /\ pass = NoPass
    /\ seen = {}
    /\ removed = {}
    /\ passes = 0

\* The pass drew the Company Location Toggles column.
TogglesDrawn == pass.widgets.toggles

\* An interaction that changes no input the script reads (typing a project
\* name or coordinate).
Rerun == Pass(uploaded_file, mode, radius_miles, Ev("rerun", ""))

Upload ==
    \E f \in (Files \cup {NoFile}) \ {uploaded_file} :
        Pass(f, mode, radius_miles, Ev("upload", f))

SetMode ==
    \E m \in Modes \ {mode} : Pass(uploaded_file, m, radius_miles, Ev("mode", m))

SetRadius ==
    \E r \in RadiusChoices \ {radius_miles} :
        Pass(uploaded_file, mode, r, Ev("radius", ""))

ClickAddProject ==
    \E n \in AddNames : Pass(uploaded_file, mode, radius_miles, Ev("add", n))

ToggleProject ==
    \E n \in DOMAIN pass.widgets.proj :
        Pass(uploaded_file, mode, radius_miles, Ev("proj_toggle", n))

RemoveProject ==
    \E n \in DOMAIN pass.widgets.proj :
        Pass(uploaded_file, mode, radius_miles, Ev("proj_remove", n))

ClickGlobal ==
    /\ TogglesDrawn
    /\ Pass(uploaded_file, mode, radius_miles, Ev("global", ""))

ClickGroup ==
    /\ TogglesDrawn
    /\ \E company \in DOMAIN pass.widgets.group :
          Pass(uploaded_file, mode, radius_miles, Ev("group", company))

ToggleCompany ==
    /\ TogglesDrawn
    /\ \E c \in DOMAIN pass.widgets.comp :
          Pass(uploaded_file, mode, radius_miles, Ev("toggle", c))

Next ==
    \/ Rerun
    \/ Upload
    \/ SetMode
    \/ SetRadius
    \/ ClickAddProject
    \/ ToggleProject
    \/ RemoveProject
    \/ ClickGlobal
    \/ ClickGroup
    \/ ToggleCompany

Spec == Init /\ [][Next]_vars

-----------------------------------------------------------------------------
(* Vocabulary of the properties *)

\* The workbook of the pass that produced the current state.
CurrentWorkbook == Workbook(uploaded_file)

\* The first visible project, in iteration order, of a list of sites.
FirstVisible(ps) ==
    ps[CHOOSE i \in 1..Len(ps) :
          ps[i].visible /\ \A j \in 1..(i - 1) : ~ps[j].visible]
SomeVisible(ps) == \E i \in 1..Len(ps) : ps[i].visible

\* The entities whose flag the interaction addresses.
CompanyTargets(ev) ==
    CASE ev.kind = "toggle" -> {ev.name}
      [] ev.kind = "global" -> pass.pre.all_competitors
      [] ev.kind = "group"  ->
           {CurrentWorkbook.companies[i].loc :
               i \in {j \in 1..Len(CurrentWorkbook.companies) :
                         CurrentWorkbook.companies[j].name = ev.name}}
      [] OTHER -> {}
ProjectTargets(ev) ==
    IF ev.kind \in {"proj_toggle", "proj_remove", "add"} THEN {ev.name} ELSE {}

\* Every company flag and project site that the interaction does not address
\* is after the pass what it was before it.
OthersUntouched ==
    /\ \A c \in DOMAIN pass.pre.competitor_visibility :
          c \notin CompanyTargets(pass.ev) =>
              /\ c \in DOMAIN competitor_visibility
              /\ competitor_visibility[c] = pass.pre.competitor_visibility[c]
    /\ \A i \in 1..Len(pass.pre.project_sites) :
          pass.pre.project_sites[i].name \notin ProjectTargets(pass.ev) =>
              \E j \in 1..Len(project_sites) :
                  project_sites[j] = pass.pre.project_sites[i]

\* The pass met the conditions under which the script recomputes.
RecomputeDue ==
    /\ mode = RadiusMode
    /\ SomeVisible(pass.atRadius.project_sites)
    /\ radius_miles # pass.pre.last_radius

WithinRadius(ref, lat, lon) == haversine(ref.lat, ref.lon, lat, lon) <= radius_miles

-----------------------------------------------------------------------------
\* What C1 asks of the state: flags by distance to the first visible project
\* of the radius guard, and last_radius the requested radius.
FlagsFollowDistance ==
    LET ref == FirstVisible(pass.atRadius.project_sites)
        rows == CurrentWorkbook.companies
    IN  /\ \A i \in 1..Len(rows) :
              /\ rows[i].loc \in DOMAIN competitor_visibility
              /\ competitor_visibility[rows[i].loc]
                    = WithinRadius(ref, rows[i].lat, rows[i].lon)
        /\ \A i \in 1..Len(project_sites) :
              project_sites[i].visible
                  = WithinRadius(ref, project_sites[i].lat, project_sites[i].lon)
        /\ last_radius = radius_miles

\* C1: a pass in radius mode with a visible project and a requested radius
\* different from last_radius, once it has run to its end, leaves every
\* company of the loaded sheet and every project site with visible =
\* (distance to the first visible project <= radius), whatever the flags
\* were, and last_radius = the requested radius.
C1_RecomputeIsFullOverwrite ==
    (TogglesDrawn /\ RecomputeDue) => FlagsFollowDistance

\* C2: in radius mode a pass whose requested radius equals last_radius does
\* not recompute: the radius block changes nothing, last_radius stays, and
\* every flag the interaction does not address keeps its value.
C2_SameRadiusNoRecompute ==
    (pass.ran /\ mode = RadiusMode /\ radius_miles = pass.pre.last_radius) =>
        /\ pass.afterRadius = pass.atRadius
        /\ last_radius = pass.pre.last_radius
        /\ OthersUntouched

\* A re-render in radius mode with a reference project, after which a company
\* flag still disagrees with the distance test: a manual toggle survived.
C2_Witness ==
    /\ pass.outcome = "rendered" /\ pass.ev.kind = "rerun"
    /\ mode = RadiusMode /\ radius_miles = pass.pre.last_radius
    /\ SomeVisible(pass.atRadius.project_sites)
    /\ \E i \in 1..Len(CurrentWorkbook.companies) :
          LET row == CurrentWorkbook.companies[i]
          IN  competitor_visibility[row.loc]
                 # WithinRadius(FirstVisible(pass.atRadius.project_sites),
                                row.lat, row.lon)

\* What C3 asks of the state: every member of the pressed button's group is
\* hidden if all were visible before the pass, and visible otherwise.
BulkDirectionApplied ==
    LET members == CompanyTargets(pass.ev)
        before == pass.pre.competitor_visibility
        allOn == \A c \in members : c \in DOMAIN before /\ before[c]
    IN  /\ members # {}
        /\ \A c \in members :
              c \in DOMAIN competitor_visibility
                  /\ competitor_visibility[c] = ~allOn

\* C3: a pass triggered by a bulk button (global, or of one Company Name
\* group) that reaches the toggle column sets every member of the group to
\* not-visible when all of them were visible before the button was pressed,
\* and to visible otherwise.
C3_BulkToggleDirection ==
    (TogglesDrawn /\ pass.ev.kind \in {"global", "group"})
        => BulkDirectionApplied

\* C4: a pass that loads a workbook lacking a required column of either sheet
\* reports the validation error and leaves the session state as it was at
\* the load step.
C4_ValidationErrorNoMutation ==
    (pass.ran /\ uploaded_file # NoFile
       /\ (~(required_cols \subseteq CurrentWorkbook.companies_columns)
             \/ ~(required_project_cols \subseteq CurrentWorkbook.projects_columns))) =>
        /\ pass.outcome =
              IF ~(required_cols \subseteq CurrentWorkbook.companies_columns)
              THEN "companies_error" ELSE "projects_error"
        /\ Session = pass.atLoad
        /\ pass.ev.kind # "add" => Session = pass.pre

\* A Projects-sheet validation error in a session that already holds
\* companies and project sites.
C4_Witness ==
    /\ pass.outcome = "projects_error"
    /\ all_competitors # {}
    /\ project_sites # <<>>

\* C5: a pass that ends in the except handler, whether the exception was
\* raised by the distance column or by the map, leaves the session state as
\* it was before the pass.
C5_ExceptionPreservesState ==
    pass.outcome \in {"exception", "map_exception"} => Session = pass.pre

\* C6: a project removed with its delete button is not a project site again
\* unless it was added by hand since.
C6_RemovedNeverReappears ==
    \A i \in 1..Len(project_sites) : project_sites[i].name \notin removed

\* C7: the company markers of a pass are the loaded locations flagged visible
\* at the end of the pass, and the project markers the sites flagged visible.
C7_MapShowsFinalFlags ==
    pass.outcome = "rendered" =>
        /\ pass.company_markers =
              {c \in Locations(CurrentWorkbook) :
                  c \in DOMAIN competitor_visibility /\ competitor_visibility[c]}
        /\ pass.project_markers =
              {project_sites[i].name :
                  i \in {j \in 1..Len(project_sites) : project_sites[j].visible}}

\* C8 as stated: a click on one company or project checkbox leaves every
\* other flag and last_radius as they were, in every state and mode.
C8_ManualToggleTouchesOnlyTarget ==
    (pass.ran /\ pass.ev.kind \in {"toggle", "proj_toggle"}) =>
        /\ last_radius = pass.pre.last_radius
        /\ OthersUntouched

\* C8 amended: a click on one company or project checkbox, in a pass that is
\* not due a radius recompute, leaves last_radius and every other flag that
\* existed before the pass as they were.
C8_ManualToggleWithoutRecompute ==
    (pass.ran /\ pass.ev.kind \in {"toggle", "proj_toggle"} /\ ~RecomputeDue) =>
        /\ last_radius = pass.pre.last_radius
        /\ OthersUntouched

\* A project checkbox clicked in radius mode and flipped, beside another
\* project site and at least one hidden company, with no recompute due.
C8_Witness ==
    /\ pass.outcome = "rendered" /\ pass.ev.kind = "proj_toggle" /\ ~RecomputeDue
    /\ mode = RadiusMode
    /\ \E i, j \in 1..Len(pass.pre.project_sites) :
          /\ pass.pre.project_sites[i].name = pass.ev.name
          /\ pass.pre.project_sites[j].name # pass.ev.name
          /\ \E k \in 1..Len(project_sites) :
                project_sites[k] = [pass.pre.project_sites[i] EXCEPT !.visible = ~@]
    /\ \E c \in DOMAIN competitor_visibility : ~competitor_visibility[c]

\* C9: in radius mode with no visible project the pass selects no reference
\* and does not recompute: the radius block changes no flag and last_radius
\* stays, even when the requested radius differs from it.
C9_NoReferenceNoRecompute ==
    (pass.outcome \in {"rendered", "exception", "map_exception"}
       /\ mode = RadiusMode
       /\ ~SomeVisible(pass.atRadius.project_sites)) =>
        /\ pass.selected_project = "None"
        /\ pass.afterRadius = pass.atRadius
        /\ last_radius = pass.pre.last_radius

\* Radius mode, project sites present but all hidden, and a requested radius
\* that differs from last_radius.
C9_Witness ==
    /\ pass.outcome = "rendered" /\ mode = RadiusMode
    /\ pass.atRadius.project_sites # <<>>
    /\ ~SomeVisible(pass.atRadius.project_sites)
    /\ radius_miles # pass.pre.last_radius

\* C10: every location of every sheet that passed validation is in
\* all_competitors and has a flag; registration creates a flag as true and
\* leaves an existing flag alone; no pass removes a company entry.
C10_CompanyEntriesPersist ==
    /\ seen \subseteq all_competitors
    /\ seen \subseteq DOMAIN competitor_visibility
    /\ DOMAIN pass.pre.competitor_visibility \subseteq DOMAIN competitor_visibility
    /\ pass.pre.all_competitors \subseteq all_competitors
    /\ \A c \in DOMAIN pass.atRadius.competitor_visibility :
          pass.atRadius.competitor_visibility[c] =
              IF c \in DOMAIN pass.atRegister.competitor_visibility
              THEN pass.atRegister.competitor_visibility[c]
              ELSE TRUE

\* A hidden company that stays hidden through the load of another workbook
\* that lists it, while that workbook's other locations are registered.
C10_Witness ==
    /\ pass.outcome = "rendered" /\ pass.ev.kind = "upload"
    /\ \E c \in Locations(CurrentWorkbook) :
          /\ c \in DOMAIN pass.pre.competitor_visibility
          /\ ~pass.pre.competitor_visibility[c]
          /\ ~competitor_visibility[c]
    /\ \E c \in Locations(CurrentWorkbook) :
          c \notin DOMAIN pass.pre.competitor_visibility

====
